---- MODULE Spec2Model ----
(***************************************************************************)
(* The 4x4 dungeon board editor (dungeon_board_editor_4_x_4_react.tsx):    *)
(* the board model, the edit engine (applyPick), the light selection and   *)
(* the JSON persistence codec, as a state machine.                         *)
(*                                                                         *)
(* Conventions.  A JavaScript array is a sequence; element i (0-based) of  *)
(* array a is At(a, i).  A value that may be null/undefined is a sequence  *)
(* of length at most one: <<>> is null/undefined, <<v>> is the value v.    *)
(* Light quantities are in tenths (7.5 is 75) and asset scales and offsets *)
(* in hundredths (0.3 is 30).                                              *)
(***************************************************************************)
EXTENDS Integers, Sequences, FiniteSets, TLC

VARIABLES
    board,              \* useState<BoardState>                    (line 96)
    mode,               \* useState<ToolMode>                      (line 98)
    cellBrush,          \* useState<CellType>                      (line 99)
    edgeBrush,          \* useState<"wall" | "door">               (line 100)
    objectBrush,        \* useState<ObjType>                       (line 101)
    selectedLightCell,  \* useState<number | null>                 (line 108)
    editingLight,       \* useState<LightProps | null>             (line 109)
    status,             \* useState<string>                        (line 111)
    customTemplates,    \* names of the loaded templates           (line 129)
    customBrush,        \* useState<string | null>                 (line 130)
    customObjects,      \* useState<CustomPlacement[]>             (line 131)
    selectedCustomId,   \* useState<number | null>                 (line 132)
    nextCustomId,       \* nextCustomIdRef.current                 (line 133)
    dragState,          \* dragStateRef.current                    (line 148)
    file,               \* the document last written by exportJson
    hist                \* history: the current run of identical picks

toolVars  == <<mode, cellBrush, edgeBrush, objectBrush>>
lightVars == <<selectedLightCell, editingLight>>
assetVars == <<customTemplates, customBrush, customObjects, selectedCustomId, nextCustomId,
               dragState>>
vars == <<board, toolVars, lightVars, status, assetVars, file, hist>>

---------------------------------------------------------------------------
(* Grid constants and addressing *)

GRID_W == 4
GRID_H == 4

CellTypes == {"floor", "pit", "water"}
EdgeTypes == {"none", "wall", "door"}
EdgeBrushes == {"wall", "door"}
ObjTypes  == {"none", "lever", "trapdoor", "torch", "bridge", "light"}
ToolModes == {"cells", "edges", "objects"}
Rotations == {0, 90, 180, 270}

Min2(a, b) == IF a <= b THEN a ELSE b
Max2(a, b) == IF a >= b THEN a ELSE b

clamp(n, a, b) == Max2(a, Min2(b, n))

idxCell(x, y)  == y * GRID_W + x
idxHEdge(x, y) == y * GRID_W + x

\* Mutant of idxVEdge: the row stride of the cells, GRID_W.
idxVEdge_CellStride(x, y) == y * GRID_W + x

idxVEdge(x, y) == y * (GRID_W + 1) + x

At(a, i) == a[i + 1]
SetAt(a, i, v) == [a EXCEPT ![i + 1] = v]
Fill(n, v) == [k \in 1..n |-> v]

NoObject == [type |-> "none", rotation |-> 0, light |-> <<>>]

makeEmptyState ==
    [cells   |-> Fill(GRID_W * GRID_H, "floor"),
     hEdges  |-> Fill((GRID_H + 1) * GRID_W, "none"),
     vEdges  |-> Fill(GRID_H * (GRID_W + 1), "none"),
     objects |-> Fill(GRID_W * GRID_H, NoObject)]

lightBrush == [color |-> "#ffc878", intensity |-> 75, distance |-> 32, decay |-> 20]

CellPick(x, y) == [kind |-> "cell", x |-> x, y |-> y]
EdgePick(d, x, y) == [kind |-> "edge", dir |-> d, x |-> x, y |-> y]

---------------------------------------------------------------------------
(* JSON values: what JSON.parse returns, tagged with the JavaScript type.  *)
(* Undef is the value of a property that is absent.                        *)

Undef == [j |-> "undefined"]
JNull == [j |-> "null"]
JNum(n) == [j |-> "number", n |-> n]
JStr(t) == [j |-> "string", s |-> t]
JArr(a) == [j |-> "array", a |-> a]
JObj(o) == [j |-> "object", o |-> o]

---------------------------------------------------------------------------
(* Status line texts *)

NoStatus == <<>>
CellNames == [floor |-> "Pavimento", pit |-> "Baratro", water |-> "Acqua"]
StatusCell(x, y, b) == <<"Cella", x + 1, y + 1, CellNames[b]>>
StatusBridge == <<"Il ponte si puo piazzare solo su Acqua o Baratro.">>
StatusEdgesMode == <<"Sei in modalita Bordi: per dipingere Acqua/Baratro passa a 'Celle'.">>
StatusNoTemplate == <<"Carica un oggetto prima di piazzarlo.">>
StatusReset == <<"Reset completato.">>
StatusLoaded == <<"Dungeon caricato.">>
StatusLoadError == <<"Errore nel caricare il JSON.">>
StatusTemplate(name) == <<"Caricato", name>>

---------------------------------------------------------------------------
(* Initial state: the useState / useRef initialisers *)

NoRun == [n |-> 0]
NoDrag == [id |-> <<>>, mode |-> "move", lastY |-> 0]

Init ==
    /\ board = makeEmptyState
    /\ mode = "cells"
    /\ cellBrush = "floor"
    /\ edgeBrush = "wall"
    /\ objectBrush = "lever"
    /\ selectedLightCell = <<>>
    /\ editingLight = <<>>
    /\ status = NoStatus
    /\ customTemplates = {}
    /\ customBrush = <<>>
    /\ customObjects = <<>>
    /\ selectedCustomId = <<>>
    /\ nextCustomId = 1
    /\ dragState = NoDrag
    /\ file = <<>>
    /\ hist = NoRun

---------------------------------------------------------------------------
(* Edit engine: the board reducer of applyPick (the setBoard updater) *)

\* Mutant of BridgeBaseOk: the terrain test is missing.
BridgeBaseOk_AnyTerrain(base) == TRUE

\* Lines 1136-1137: the terrain a bridge may be placed on.
BridgeBaseOk(base) == base = "water" \/ base = "pit"

\* Mutant of PaintCell: the bridge survives the floor (line 1117 missing).
PaintCell_KeepBridge(b, i, brush) == [b EXCEPT !.cells = SetAt(@, i, brush)]

\* Mutant of PaintCell: a floor paint clears whatever object the cell holds.
PaintCell_ClearsObject(b, i, brush) ==
    LET painted == [b EXCEPT !.cells = SetAt(@, i, brush)]
    IN  IF brush = "floor"
        THEN [painted EXCEPT !.objects = SetAt(@, i, NoObject)]
        ELSE painted

\* Lines 1110-1118: a cell pick in cells mode.
PaintCell(b, i, brush) ==
    LET painted == [b EXCEPT !.cells = SetAt(@, i, brush)]
    IN  IF brush = "floor" /\ At(painted.objects, i).type = "bridge"
        THEN [painted EXCEPT !.objects = SetAt(@, i, NoObject)]
        ELSE painted

\* Mutant of PlaceLight: the light starts at rotation 0.
PlaceLight_ZeroRotation(b, i) ==
    [b EXCEPT !.objects =
        SetAt(@, i, [type |-> "light", rotation |-> 0, light |-> <<lightBrush>>])]

\* Lines 1123-1129: the light brush keeps the rotation and attaches a copy
\* of the light brush values.
PlaceLight(b, i) ==
    [b EXCEPT !.objects =
        SetAt(@, i, [type |-> "light", rotation |-> At(b.objects, i).rotation,
                     light |-> <<lightBrush>>])]

\* Mutant of RotateQuarter: the modulo is missing.
RotateQuarter_NoWrap(r) == r + 90

\* Line 1154: one quarter turn.
RotateQuarter(r) == (r + 90) % 360

\* Mutant of RotateOrReplace: the replacement keeps the light payload
\* (line 1158 missing).
RotateOrReplace_KeepLight(o, brush) ==
    IF o.type = brush
    THEN [o EXCEPT !.rotation = RotateQuarter(o.rotation)]
    ELSE [o EXCEPT !.type = brush, !.rotation = 0]

\* Lines 1153-1158: rotate an object of the brush's type, else replace it.
RotateOrReplace(o, brush) ==
    IF o.type = brush
    THEN [o EXCEPT !.rotation = RotateQuarter(o.rotation)]
    ELSE [type |-> brush, rotation |-> 0, light |-> <<>>]

\* Lines 1120-1165: a cell pick in objects mode; the result is the previous
\* board when the bridge brush is rejected.
PlaceObject(b, i, brush) ==
    IF brush = "light" THEN PlaceLight(b, i)
    ELSE IF brush = "bridge" /\ ~BridgeBaseOk(At(b.cells, i)) THEN b
    ELSE IF brush = "none" THEN [b EXCEPT !.objects = SetAt(@, i, NoObject)]
    ELSE [b EXCEPT !.objects = SetAt(@, i, RotateOrReplace(At(b.objects, i), brush))]

\* Mutant of ToggleEdge: the edge is set, never toggled off.
ToggleEdge_AlwaysSet(e, brush) == brush

\* Lines 1175, 1179: the edge toggle.
ToggleEdge(e, brush) == IF e = brush THEN "none" ELSE brush

\* Mutant of EditEdge: the mode test of line 1172 is missing.
EditEdge_AnyMode(b, m, pick, brush) ==
    IF pick.dir = "h"
    THEN [b EXCEPT !.hEdges =
            SetAt(@, idxHEdge(pick.x, pick.y),
                  ToggleEdge(At(b.hEdges, idxHEdge(pick.x, pick.y)), brush))]
    ELSE [b EXCEPT !.vEdges =
            SetAt(@, idxVEdge(pick.x, pick.y),
                  ToggleEdge(At(b.vEdges, idxVEdge(pick.x, pick.y)), brush))]

\* Mutant of EditEdge: a horizontal pick writes the entry of the same index
\* in both edge arrays.
EditEdge_BothArrays(b, m, pick, brush) ==
    IF m # "edges" THEN b
    ELSE IF pick.dir = "h"
    THEN [b EXCEPT !.hEdges =
            SetAt(@, idxHEdge(pick.x, pick.y),
                  ToggleEdge(At(b.hEdges, idxHEdge(pick.x, pick.y)), brush)),
                   !.vEdges =
            SetAt(@, idxHEdge(pick.x, pick.y),
                  ToggleEdge(At(b.hEdges, idxHEdge(pick.x, pick.y)), brush))]
    ELSE [b EXCEPT !.vEdges =
            SetAt(@, idxVEdge(pick.x, pick.y),
                  ToggleEdge(At(b.vEdges, idxVEdge(pick.x, pick.y)), brush))]

\* Lines 1171-1181: an edge pick; ignored outside edges mode.
EditEdge(b, m, pick, brush) ==
    IF m # "edges" THEN b
    ELSE IF pick.dir = "h"
    THEN [b EXCEPT !.hEdges =
            SetAt(@, idxHEdge(pick.x, pick.y),
                  ToggleEdge(At(b.hEdges, idxHEdge(pick.x, pick.y)), brush))]
    ELSE [b EXCEPT !.vEdges =
            SetAt(@, idxVEdge(pick.x, pick.y),
                  ToggleEdge(At(b.vEdges, idxVEdge(pick.x, pick.y)), brush))]

\* Lines 1098-1184: the setBoard updater of applyPick.
NextBoard(b, m, cb, eb, ob, pick) ==
    IF pick.kind = "cell"
    THEN IF m = "cells" THEN PaintCell(b, idxCell(pick.x, pick.y), cb)
         ELSE IF m = "objects" THEN PlaceObject(b, idxCell(pick.x, pick.y), ob)
         ELSE b
    ELSE EditEdge(b, m, pick, eb)

\* The status text the updater sets, if any.
PickStatus(b, m, cb, ob, pick) ==
    IF pick.kind = "cell"
    THEN IF m = "cells" THEN StatusCell(pick.x, pick.y, cb)
         ELSE IF m = "objects"
         THEN IF ob = "bridge" /\ ~BridgeBaseOk(At(b.cells, idxCell(pick.x, pick.y)))
              THEN StatusBridge ELSE status
         ELSE StatusEdgesMode
    ELSE status

\* Mutant of PickLightSelection: the eraser leaves the selection alone
\* (lines 1146-1149 missing).
PickLightSelection_KeepOnErase(b, i, ob) ==
    IF ob = "light" THEN <<<<i>>, <<lightBrush>>>>
    ELSE IF ob = "bridge" /\ ~BridgeBaseOk(At(b.cells, i))
    THEN <<selectedLightCell, editingLight>>
    ELSE IF ob # "none" /\ At(b.objects, i).type # ob /\ selectedLightCell = <<i>>
    THEN <<<<>>, <<>>>>
    ELSE <<selectedLightCell, editingLight>>

\* Lines 1130-1131, 1146-1149, 1159-1162: the light selection after a cell
\* pick at cell i in objects mode.
PickLightSelection(b, i, ob) ==
    IF ob = "light" THEN <<<<i>>, <<lightBrush>>>>
    ELSE IF ob = "bridge" /\ ~BridgeBaseOk(At(b.cells, i))
    THEN <<selectedLightCell, editingLight>>
    ELSE IF (ob = "none" \/ At(b.objects, i).type # ob) /\ selectedLightCell = <<i>>
    THEN <<<<>>, <<>>>>
    ELSE <<selectedLightCell, editingLight>>

---------------------------------------------------------------------------
(* Edit engine: the external asset path of applyPick *)

\* Mutant of AssetPath: a cell that holds a built-in object is left to the
\* built-in brushes.
AssetPath_NeedsFreeCell(pick) ==
    /\ mode = "objects" /\ pick.kind = "cell" /\ customBrush # <<>> /\ objectBrush = "none"
    /\ At(board.objects, idxCell(pick.x, pick.y)).type = "none"

\* Line 1076: the pick goes to the external asset path.
AssetPath(pick) ==
    mode = "objects" /\ pick.kind = "cell" /\ customBrush # <<>> /\ objectBrush = "none"

\* Line 1083: findIndex, 0 when no placement is at the cell (indices from 1).
FindAt(list, x, y) ==
    LET hits == {k \in 1..Len(list) : list[k].x = x /\ list[k].y = y}
    IN  IF hits = {} THEN 0 ELSE CHOOSE k \in hits : \A j \in hits : k <= j

\* Mutant of RemoveAt: splice(0, 1), the first placement is removed.
RemoveAt_First(list, k) == Tail(list)

\* Lines 1085-1086: splice(existingIdx, 1).
RemoveAt(list, k) == [j \in 1..(Len(list) - 1) |-> IF j < k THEN list[j] ELSE list[j + 1]]

\* Line 1091: a new placement.
NewPlacement(id, name, x, y) ==
    [id |-> id, name |-> name, url |-> JStr(name), x |-> x, y |-> y,
     scale |-> 100, yOffset |-> 0, rotation |-> 0]

---------------------------------------------------------------------------
(* History of the current run of identical picks (for the laws about      *)
(* repeated edits): the pick, the mode and brush it was made with, how     *)
(* many times in a row it was applied, and the addressed entries before    *)
(* the first application.                                                  *)

RunLen == 4

ActiveBrush == IF mode = "cells" THEN cellBrush
               ELSE IF mode = "edges" THEN edgeBrush ELSE objectBrush

RunKey(pick) == [pick |-> pick, mode |-> mode, brush |-> ActiveBrush,
                 asset |-> AssetPath(pick)]

Addressed(b, pick) ==
    IF pick.kind = "cell"
    THEN [cell |-> At(b.cells, idxCell(pick.x, pick.y)),
          object |-> At(b.objects, idxCell(pick.x, pick.y))]
    ELSE IF pick.dir = "h"
    THEN [edge |-> At(b.hEdges, idxHEdge(pick.x, pick.y))]
    ELSE [edge |-> At(b.vEdges, idxVEdge(pick.x, pick.y))]

RunAfter(pick) ==
    IF hist.n > 0 /\ hist.n < RunLen /\ hist.key = RunKey(pick)
    THEN [hist EXCEPT !.n = @ + 1]
    ELSE [n |-> 1, key |-> RunKey(pick), before |-> Addressed(board, pick)]

---------------------------------------------------------------------------
(* Operations *)

MaxId == 3

\* Lines 1074-1185.
applyPick(pick) ==
    /\ UNCHANGED <<toolVars, customTemplates, customBrush, dragState, file>>
    /\ IF AssetPath(pick)
       THEN /\ UNCHANGED <<board, lightVars>>
            /\ IF customBrush[1] \notin customTemplates
               THEN /\ status' = StatusNoTemplate
                    /\ UNCHANGED <<customObjects, selectedCustomId, nextCustomId>>
               ELSE LET k == FindAt(customObjects, pick.x, pick.y)
                    IN  /\ status' = status
                        /\ IF k > 0
                           THEN /\ customObjects' = RemoveAt(customObjects, k)
                                /\ selectedCustomId' =
                                     IF selectedCustomId = <<customObjects[k].id>>
                                     THEN <<>> ELSE selectedCustomId
                                /\ UNCHANGED nextCustomId
                           ELSE /\ nextCustomId <= MaxId
                                /\ customObjects' = Append(customObjects,
                                     NewPlacement(nextCustomId, customBrush[1], pick.x, pick.y))
                                /\ selectedCustomId' = <<nextCustomId>>
                                /\ nextCustomId' = nextCustomId + 1
       ELSE /\ board' = NextBoard(board, mode, cellBrush, edgeBrush, objectBrush, pick)
            /\ status' = PickStatus(board, mode, cellBrush, objectBrush, pick)
            /\ UNCHANGED <<customObjects, nextCustomId>>
            /\ IF pick.kind = "cell" /\ mode = "objects"
               THEN /\ selectedCustomId' = <<>>
                    /\ selectedLightCell' =
                         PickLightSelection(board, idxCell(pick.x, pick.y), objectBrush)[1]
                    /\ editingLight' =
                         PickLightSelection(board, idxCell(pick.x, pick.y), objectBrush)[2]
               ELSE UNCHANGED <<selectedCustomId, lightVars>>

\* Lines 1702-1708: the mode buttons.
SetMode(m) ==
    /\ mode' = m
    /\ UNCHANGED <<board, cellBrush, edgeBrush, objectBrush, lightVars, status, assetVars, file>>

\* Lines 1346, 1719: the cell brush buttons.
SetCellBrush(t) ==
    /\ cellBrush' = t
    /\ UNCHANGED <<board, mode, edgeBrush, objectBrush, lightVars, status, assetVars, file>>

\* Lines 1411, 1732: the edge brush buttons.
SetEdgeBrush(t) ==
    /\ edgeBrush' = t
    /\ UNCHANGED <<board, mode, cellBrush, objectBrush, lightVars, status, assetVars, file>>

\* Lines 1430-1434, 1746-1750: the object brush buttons and the eraser.
SetObjectBrush(t) ==
    /\ objectBrush' = t
    /\ UNCHANGED <<board, mode, cellBrush, edgeBrush, lightVars, status, assetVars, file>>

\* Lines 1187-1191.
resetAll ==
    /\ board' = makeEmptyState
    /\ status' = StatusReset
    /\ UNCHANGED <<toolVars, lightVars, assetVars, file>>

\* The setTimeout(() => setStatus(""), ...) that follows every setStatus.
ClearStatus ==
    /\ status # NoStatus
    /\ status' = NoStatus
    /\ UNCHANGED <<board, toolVars, lightVars, assetVars, file>>

---------------------------------------------------------------------------
(* Point lights *)

\* Lines 1304-1306: the cells listed as placed lights.
IsLight(o) == o.type = "light" /\ o.light # <<>>

\* Line 1328: { ...current.light, ...partial }.
MergeLight(l, partial) ==
    [f \in DOMAIN l |-> IF f \in DOMAIN partial THEN partial[f] ELSE l[f]]

\* Lines 1509-1511: a button of the placed-lights list.
SelectLight(idx) ==
    /\ IsLight(At(board.objects, idx))
    /\ selectedLightCell' = <<idx>>
    /\ editingLight' = At(board.objects, idx).light
    /\ UNCHANGED <<board, toolVars, status, assetVars, file>>

\* Lines 1324-1336.
updateSelectedLight(partial) ==
    /\ UNCHANGED <<toolVars, selectedLightCell, status, assetVars, file>>
    /\ IF selectedLightCell = <<>> \/ ~IsLight(At(board.objects, selectedLightCell[1]))
       THEN UNCHANGED <<board, editingLight>>
       ELSE LET updated == MergeLight(At(board.objects, selectedLightCell[1]).light[1], partial)
            IN  /\ editingLight' = <<updated>>
                /\ board' = [board EXCEPT !.objects =
                      [k \in DOMAIN @ |->
                          IF k = selectedLightCell[1] + 1 /\ @[k].type = "light"
                          THEN [@[k] EXCEPT !.light = <<updated>>] ELSE @[k]]]

\* Lines 1314-1322: the effect that drops a selection whose cell no longer
\* holds a light.
LightSelectionEffect ==
    /\ selectedLightCell # <<>>
    /\ ~IsLight(At(board.objects, selectedLightCell[1]))
    /\ selectedLightCell' = <<>>
    /\ editingLight' = <<>>
    /\ UNCHANGED <<board, toolVars, status, assetVars, file>>

---------------------------------------------------------------------------
(* External assets: templates, the placed list, sliders and the drag       *)

\* Lines 219-252: the loader callback of loadCustomGlb.
loadCustomGlb(name) ==
    /\ customTemplates' = customTemplates \cup {name}
    /\ customBrush' = <<name>>
    /\ status' = StatusTemplate(name)
    /\ UNCHANGED <<board, toolVars, lightVars, customObjects, selectedCustomId,
                   nextCustomId, dragState, file>>

\* Lines 1459-1469: a template button.
SelectTemplate(name) ==
    /\ name \in customTemplates
    /\ customBrush' = <<name>>
    /\ objectBrush' = "none"
    /\ UNCHANGED <<board, mode, cellBrush, edgeBrush, lightVars, status, customTemplates,
                   customObjects, selectedCustomId, nextCustomId, dragState, file>>

\* Lines 1591-1598: a button of the placed-assets list.
SelectCustom(k) ==
    /\ k \in 1..Len(customObjects)
    /\ selectedCustomId' = <<customObjects[k].id>>
    /\ UNCHANGED <<board, toolVars, lightVars, status, customTemplates, customBrush,
                   customObjects, nextCustomId, dragState, file>>

\* Line 1070: { ...c, ...partial }.
MergePlacement(c, partial) ==
    [f \in DOMAIN c |-> IF f \in DOMAIN partial THEN partial[f] ELSE c[f]]

\* Lines 1067-1072: the sliders of the selected asset.
updateSelectedCustom(partial) ==
    /\ customObjects' =
          IF selectedCustomId = <<>> THEN customObjects
          ELSE [k \in 1..Len(customObjects) |->
                   IF customObjects[k].id = selectedCustomId[1]
                   THEN MergePlacement(customObjects[k], partial) ELSE customObjects[k]]
    /\ UNCHANGED <<board, toolVars, lightVars, status, customTemplates, customBrush,
                   selectedCustomId, nextCustomId, dragState, file>>

\* Line 1040: [...customObjects].reverse().find(...): the last placement at
\* the cell, 0 when there is none.
FindLastAt(list, x, y) ==
    LET hits == {k \in 1..Len(list) : list[k].x = x /\ list[k].y = y}
    IN  IF hits = {} THEN 0 ELSE CHOOSE k \in hits : \A j \in hits : k >= j

\* Lines 1036-1045: right button down over cell (x, y), with or without Alt.
startCustomDrag(x, y, alt, clientY) ==
    LET k == FindLastAt(customObjects, x, y)
    IN  /\ IF k = 0
           THEN UNCHANGED <<dragState, selectedCustomId>>
           ELSE /\ dragState' = [id |-> <<customObjects[k].id>>,
                                 mode |-> IF alt THEN "scale" ELSE "move",
                                 lastY |-> clientY]
                /\ selectedCustomId' = <<customObjects[k].id>>
        /\ UNCHANGED <<board, toolVars, lightVars, status, customTemplates, customBrush,
                       customObjects, nextCustomId, file>>

\* Lines 1047-1059: the mouse moves to cell (x, y), at height clientY.
handleCustomDrag(x, y, clientY) ==
    /\ IF dragState.id = <<>>
       THEN UNCHANGED <<customObjects, dragState>>
       ELSE IF dragState.mode = "move"
       THEN /\ customObjects' =
                 [k \in 1..Len(customObjects) |->
                     IF customObjects[k].id = dragState.id[1]
                     THEN [customObjects[k] EXCEPT !.x = x, !.y = y] ELSE customObjects[k]]
            /\ UNCHANGED dragState
       ELSE /\ customObjects' =
                 [k \in 1..Len(customObjects) |->
                     IF customObjects[k].id = dragState.id[1]
                     THEN [customObjects[k] EXCEPT
                              !.scale = clamp(@ + (dragState.lastY - clientY), 30, 300)]
                     ELSE customObjects[k]]
            /\ dragState' = [dragState EXCEPT !.lastY = clientY]
    /\ UNCHANGED <<board, toolVars, lightVars, status, customTemplates, customBrush,
                   selectedCustomId, nextCustomId, file>>

\* Lines 1061-1065 and 2064-2067: the right button goes up (pickFromMouse
\* returns at once for any button but the left one).
endCustomDrag ==
    /\ dragState' = NoDrag
    /\ UNCHANGED <<board, toolVars, lightVars, status, customTemplates, customBrush,
                   customObjects, selectedCustomId, nextCustomId, file>>

---------------------------------------------------------------------------
(* Persistence codec *)

\* A property read v.f: undefined when v is no object or has no such key.
Get(v, f) == IF v.j = "object" /\ f \in DOMAIN v.o THEN v.o[f] ELSE Undef

\* JavaScript truthiness (the operand of !).
Truthy(v) ==
    CASE v.j \in {"undefined", "null", "syntax error"} -> FALSE
      [] v.j = "number" -> v.n # 0
      [] v.j = "string" -> v.s # ""
      [] OTHER -> TRUE

SeqMap(Op(_), a) == [k \in 1..Len(a) |-> Op(a[k])]

\* JSON.stringify of an object placement: a light that is undefined is not
\* written.
ObjectJson(o) ==
    IF o.light = <<>>
    THEN [type |-> o.type, rotation |-> o.rotation]
    ELSE [type |-> o.type, rotation |-> o.rotation, light |-> o.light[1]]

\* The object placement a parsed element is read as: its light is undefined
\* when the key is absent.
ReadObject(d) ==
    [type |-> d.type, rotation |-> d.rotation,
     light |-> IF "light" \in DOMAIN d THEN <<d.light>> ELSE <<>>]

\* JSON.stringify of an asset placement.
PlacementJson(c) ==
    JObj([id |-> JNum(c.id), name |-> JStr(c.name), url |-> c.url,
          x |-> JNum(c.x), y |-> JNum(c.y), scale |-> JNum(c.scale),
          yOffset |-> JNum(c.yOffset), rotation |-> JNum(c.rotation)])

\* Lines 1194-1199: the document exportJson writes.
Serialize(b, assets) ==
    JObj([version |-> JNum(1),
          board |-> JObj([cells |-> JArr(b.cells),
                          hEdges |-> JArr(b.hEdges),
                          vEdges |-> JArr(b.vEdges),
                          objects |-> JArr(SeqMap(ObjectJson, b.objects))]),
          customObjects |-> JArr(SeqMap(PlacementJson, assets))])

\* Lines 1193-1208.
exportJson ==
    /\ file' = <<Serialize(board, customObjects)>>
    /\ UNCHANGED <<board, toolVars, lightVars, status, assetVars>>

\* Mutant of LoadFails: only the document and its board are required, not
\* the four arrays.
LoadFails_BoardOnly(data) ==
    \/ data.j = "syntax error"
    \/ ~Truthy(data) \/ data.j \notin {"object", "array"}
    \/ ~Truthy(Get(data, "board"))

\* Lines 1215-1219: the document is rejected.
LoadFails(data) ==
    \/ data.j = "syntax error"
    \/ ~Truthy(data) \/ data.j \notin {"object", "array"}
    \/ ~Truthy(Get(data, "board"))
    \/ ~Truthy(Get(Get(data, "board"), "cells"))
    \/ ~Truthy(Get(Get(data, "board"), "hEdges"))
    \/ ~Truthy(Get(Get(data, "board"), "vEdges"))
    \/ ~Truthy(Get(Get(data, "board"), "objects"))

\* Mutant of LoadArray: the length is not compared.
LoadArray_AnyLength(v, n, default) == IF v.j = "array" THEN v.a ELSE default

\* Lines 1221-1233: one board array, or its default.
LoadArray(v, n, default) == IF v.j = "array" /\ Len(v.a) = n THEN v.a ELSE default

\* Lines 1220-1234.
LoadBoard(data) ==
    LET b == Get(data, "board")
    IN  [cells   |-> LoadArray(Get(b, "cells"), GRID_W * GRID_H, makeEmptyState.cells),
         hEdges  |-> LoadArray(Get(b, "hEdges"), (GRID_H + 1) * GRID_W, makeEmptyState.hEdges),
         vEdges  |-> LoadArray(Get(b, "vEdges"), GRID_H * (GRID_W + 1), makeEmptyState.vEdges),
         objects |-> IF Get(b, "objects").j = "array"
                        /\ Len(Get(b, "objects").a) = GRID_W * GRID_H
                     THEN SeqMap(ReadObject, Get(b, "objects").a)
                     ELSE makeEmptyState.objects]

\* Line 1240: the entries that are kept.
KeepsEntry(c) ==
    Get(c, "name").j = "string" /\ Get(c, "x").j = "number" /\ Get(c, "y").j = "number"

NumberOr(v, default) == IF v.j = "number" THEN v.n ELSE default

\* Mutant of ImportPlacement: the rotation of the entry is not read.
ImportPlacement_NoRotation(c, id) ==
    [id |-> NumberOr(Get(c, "id"), id),
     name |-> Get(c, "name").s,
     url |-> IF Get(c, "url").j \in {"undefined", "null"} THEN Get(c, "name") ELSE Get(c, "url"),
     x |-> clamp(Get(c, "x").n, 0, GRID_W - 1),
     y |-> clamp(Get(c, "y").n, 0, GRID_H - 1),
     scale |-> IF Get(c, "scale").j = "number" THEN clamp(Get(c, "scale").n, 30, 300) ELSE 100,
     yOffset |-> IF Get(c, "yOffset").j = "number"
                 THEN clamp(Get(c, "yOffset").n, -100, 300) ELSE 0,
     rotation |-> 0]

\* Mutant of ImportPlacement: a numeric scale is taken as it is.
ImportPlacement_RawScale(c, id) ==
    [id |-> NumberOr(Get(c, "id"), id),
     name |-> Get(c, "name").s,
     url |-> IF Get(c, "url").j \in {"undefined", "null"} THEN Get(c, "name") ELSE Get(c, "url"),
     x |-> clamp(Get(c, "x").n, 0, GRID_W - 1),
     y |-> clamp(Get(c, "y").n, 0, GRID_H - 1),
     scale |-> NumberOr(Get(c, "scale"), 100),
     yOffset |-> IF Get(c, "yOffset").j = "number"
                 THEN clamp(Get(c, "yOffset").n, -100, 300) ELSE 0,
     rotation |-> NumberOr(Get(c, "rotation"), 0)]

\* Lines 1241-1250: a kept entry as a placement; id is the counter's value.
ImportPlacement(c, id) ==
    [id |-> NumberOr(Get(c, "id"), id),
     name |-> Get(c, "name").s,
     url |-> IF Get(c, "url").j \in {"undefined", "null"} THEN Get(c, "name") ELSE Get(c, "url"),
     x |-> clamp(Get(c, "x").n, 0, GRID_W - 1),
     y |-> clamp(Get(c, "y").n, 0, GRID_H - 1),
     scale |-> IF Get(c, "scale").j = "number" THEN clamp(Get(c, "scale").n, 30, 300) ELSE 100,
     yOffset |-> IF Get(c, "yOffset").j = "number"
                 THEN clamp(Get(c, "yOffset").n, -100, 300) ELSE 0,
     rotation |-> NumberOr(Get(c, "rotation"), 0)]

\* Lines 1239-1250: filter and map over the entries, in order; the result is
\* the list and the counter after it.
RECURSIVE ImportEntries(_, _, _)
ImportEntries(entries, acc, id) ==
    IF entries = <<>> THEN [list |-> acc, next |-> id]
    ELSE LET c == Head(entries)
         IN  IF ~KeepsEntry(c) THEN ImportEntries(Tail(entries), acc, id)
             ELSE ImportEntries(Tail(entries), Append(acc, ImportPlacement(c, id)),
                                IF Get(c, "id").j = "number" THEN id ELSE id + 1)

\* What a load reads and writes.
EditorState ==
    [board |-> board, customObjects |-> customObjects, nextCustomId |-> nextCustomId,
     selectedLightCell |-> selectedLightCell, editingLight |-> editingLight,
     selectedCustomId |-> selectedCustomId, status |-> status]

\* Mutant of RejectedLoad: the selections are cleared before the document
\* is validated.
RejectedLoad_ClearsSelections(st) ==
    [st EXCEPT !.status = StatusLoadError, !.selectedLightCell = <<>>,
               !.editingLight = <<>>, !.selectedCustomId = <<>>]

\* Lines 1258-1262: the catch branch.
RejectedLoad(st) == [st EXCEPT !.status = StatusLoadError]

\* Mutant of AcceptedLoad: the light selection survives the load (lines
\* 1253-1254 missing).
AcceptedLoad_KeepsSelection(data, st) ==
    LET entries == Get(data, "customObjects")
        loaded == IF entries.j = "array"
                  THEN ImportEntries(entries.a, <<>>, st.nextCustomId)
                  ELSE [list |-> st.customObjects, next |-> st.nextCustomId]
    IN  [board |-> LoadBoard(data), customObjects |-> loaded.list, nextCustomId |-> loaded.next,
         selectedLightCell |-> st.selectedLightCell, editingLight |-> st.editingLight,
         selectedCustomId |-> <<>>, status |-> StatusLoaded]

\* Lines 1220-1257.
AcceptedLoad(data, st) ==
    LET entries == Get(data, "customObjects")
        loaded == IF entries.j = "array"
                  THEN ImportEntries(entries.a, <<>>, st.nextCustomId)
                  ELSE [list |-> st.customObjects, next |-> st.nextCustomId]
    IN  [board |-> LoadBoard(data), customObjects |-> loaded.list, nextCustomId |-> loaded.next,
         selectedLightCell |-> <<>>, editingLight |-> <<>>, selectedCustomId |-> <<>>,
         status |-> StatusLoaded]

\* Lines 1212-1263: reader.onload.
LoadResult(data, st) == IF LoadFails(data) THEN RejectedLoad(st) ELSE AcceptedLoad(data, st)

\* Lines 1210-1265, with the text of the file already parsed (data is
\* "syntax error" for a text JSON.parse rejects).
importJson(data) ==
    LET r == LoadResult(data, EditorState)
    IN  /\ r.nextCustomId <= MaxId + 1
        /\ board' = r.board
        /\ customObjects' = r.customObjects
        /\ nextCustomId' = r.nextCustomId
        /\ selectedLightCell' = r.selectedLightCell
        /\ editingLight' = r.editingLight
        /\ selectedCustomId' = r.selectedCustomId
        /\ status' = r.status
        /\ UNCHANGED <<toolVars, customTemplates, customBrush, dragState, file>>

\* History of a load: the document and the state it was loaded into.
LoadRecord(data) == [n |-> 0, doc |-> data, before |-> EditorState]
AfterLoad == "doc" \in DOMAIN hist

---------------------------------------------------------------------------
(* The editing session: every tool setting, picks at the addresses of     *)
(* PickCells and PickEdges, light editing and Reset.  The run history is   *)
(* not kept here.                                                          *)

PickCells == {CellPick(1, 1)}
PickEdges == {EdgePick("v", 2, 1)}
LightPartials == {[intensity |-> 0], [color |-> "#ffffff"]}
CellIndexes == 0..(GRID_W * GRID_H - 1)

Next ==
    \/ \E m \in ToolModes : SetMode(m) /\ UNCHANGED hist
    \/ \E t \in CellTypes : SetCellBrush(t) /\ UNCHANGED hist
    \/ \E t \in EdgeBrushes : SetEdgeBrush(t) /\ UNCHANGED hist
    \/ \E t \in ObjTypes : SetObjectBrush(t) /\ UNCHANGED hist
    \/ \E pick \in PickCells \cup PickEdges : applyPick(pick) /\ UNCHANGED hist
    \/ \E idx \in CellIndexes : SelectLight(idx) /\ UNCHANGED hist
    \/ \E partial \in LightPartials : updateSelectedLight(partial) /\ UNCHANGED hist
    \/ LightSelectionEffect /\ UNCHANGED hist
    \/ resetAll /\ UNCHANGED hist
    \/ ClearStatus /\ UNCHANGED hist

Spec == Init /\ [][Next]_vars

---------------------------------------------------------------------------
(* Claims about the editing session (Spec) *)

ObjectAt(i) == At(board.objects, i)
CellAt(i) == At(board.cells, i)

\* C1: in every state reached by edits, every cell whose object is a bridge
\* has terrain water or pit.
C1_BridgeOnWaterOrPit ==
    \A i \in CellIndexes :
        ObjectAt(i).type = "bridge" => CellAt(i) \in {"water", "pit"}

\* A bridge that was placed on a pit cell and turned once.
C1_Witness ==
    \E i \in CellIndexes :
        ObjectAt(i).type = "bridge" /\ ObjectAt(i).rotation = 90 /\ CellAt(i) = "pit"

\* C2: in every state reached by edits, a cell's object has a light payload
\* if and only if its type is light.
C2_LightIffTypeLight ==
    \A i \in CellIndexes : (ObjectAt(i).light # <<>>) <=> (ObjectAt(i).type = "light")

\* A light whose payload was edited, and the same cell after a lever has
\* replaced a light (the status is the trace of the terrain paint before).
C2_Witness ==
    \E i \in CellIndexes :
        /\ ObjectAt(i).type = "light"
        /\ ObjectAt(i).light # <<>>
        /\ ObjectAt(i).light[1].intensity = 0
        /\ ObjectAt(i).rotation = 180

\* The three rejected edits: the bridge brush on a floor cell, a cell pick
\* in edges mode, an edge pick in cells or objects mode.
Rejected(pick) ==
    \/ /\ pick.kind = "cell" /\ mode = "objects" /\ objectBrush = "bridge"
       /\ CellAt(idxCell(pick.x, pick.y)) = "floor"
    \/ pick.kind = "cell" /\ mode = "edges"
    \/ pick.kind = "edge" /\ mode \in {"cells", "objects"}

\* C3: a rejected edit leaves the board identical: no cell, edge or object
\* changes in a step that applies a rejected pick.
C3_RejectedEditKeepsBoard ==
    [][\A pick \in PickCells \cup PickEdges :
          (Rejected(pick) /\ applyPick(pick)) => board' = board]_vars

\* The bridge brush was just rejected on a floor cell of a board that holds
\* a wall and a lever.
C3_Witness ==
    /\ status = StatusBridge
    /\ mode = "objects" /\ objectBrush = "bridge"
    /\ \E pick \in PickCells :
          /\ CellAt(idxCell(pick.x, pick.y)) = "floor"
          /\ ObjectAt(idxCell(pick.x, pick.y)).type = "lever"
    /\ \E pick \in PickEdges : Addressed(board, pick).edge = "wall"

---------------------------------------------------------------------------
(* Edge editing with the run history kept: the edge brushes, the modes    *)
(* and picks at the addresses of RunEdges and PickCells.                   *)

RunEdges == {EdgePick("v", 2, 1), EdgePick("h", 1, 4), EdgePick("h", 0, 0)}

NextEdges ==
    \/ \E m \in ToolModes : SetMode(m) /\ hist' = NoRun
    \/ \E t \in EdgeBrushes : SetEdgeBrush(t) /\ hist' = NoRun
    \/ \E pick \in RunEdges \cup PickCells : applyPick(pick) /\ hist' = RunAfter(pick)
    \/ ClearStatus /\ UNCHANGED hist

SpecEdges == Init /\ [][NextEdges]_vars

\* The run in progress is a run of edge picks in edges mode.
EdgeRun == hist.n > 0 /\ hist.key.mode = "edges" /\ hist.key.pick.kind = "edge"

\* C4 as stated: after the same edge-brush edit was applied twice in
\* succession to an edge in edges mode, the edge is none, whatever its value
\* before.
C4_Original ==
    (EdgeRun /\ hist.n = 2) => Addressed(board, hist.key.pick).edge = "none"

\* C4 amended: two applications in succession leave the edge none when it
\* did not equal the brush before the first one, and equal to the brush when
\* it did.
C4_ToggleTwice ==
    (EdgeRun /\ hist.n = 2) =>
        Addressed(board, hist.key.pick).edge =
            IF hist.before.edge = hist.key.brush THEN hist.key.brush ELSE "none"

\* A door under the wall brush, toggled twice: wall, then none.
C4_Witness ==
    /\ EdgeRun /\ hist.n = 2
    /\ hist.key.brush = "wall" /\ hist.before.edge = "door"
    /\ hist.key.pick = EdgePick("v", 2, 1)
    /\ Addressed(board, hist.key.pick).edge = "none"

---------------------------------------------------------------------------
(* Terrain, object and light editing of one cell with the run history      *)
(* kept.                                                                   *)

NextRepeat ==
    \/ \E m \in {"cells", "objects"} : SetMode(m) /\ hist' = NoRun
    \/ \E t \in CellTypes : SetCellBrush(t) /\ hist' = NoRun
    \/ \E t \in ObjTypes : SetObjectBrush(t) /\ hist' = NoRun
    \/ \E pick \in PickCells : applyPick(pick) /\ hist' = RunAfter(pick)
    \/ \E idx \in CellIndexes : SelectLight(idx) /\ hist' = NoRun
    \/ \E partial \in LightPartials : updateSelectedLight(partial) /\ hist' = NoRun
    \/ ClearStatus /\ UNCHANGED hist

SpecRepeat == Init /\ [][NextRepeat]_vars

\* The run in progress places the object brush on a cell whose object had
\* the brush's type before the first placement.
MatchingRun ==
    /\ hist.n > 0 /\ hist.key.mode = "objects" /\ hist.key.pick.kind = "cell"
    /\ ~hist.key.asset
    /\ hist.before.object.type = hist.key.brush

\* C5: on a cell whose object already has the brush's type, four placements
\* in a row return the rotation to its value before the first; the rotation
\* is in {0, 90, 180, 270} after each placement; with lever, trapdoor, torch
\* or bridge the n-th placement has advanced it by n quarter turns.
C5_RotationLaw ==
    MatchingRun =>
        LET now == Addressed(board, hist.key.pick).object
        IN  /\ now.rotation \in Rotations
            /\ hist.n = 4 => now.rotation = hist.before.object.rotation
            /\ hist.key.brush \in {"lever", "trapdoor", "torch", "bridge"} =>
                   now.rotation = (hist.before.object.rotation + 90 * hist.n) % 360

\* A bridge that stood at 90 degrees, placed again four times.
C5_Witness ==
    /\ MatchingRun /\ hist.n = 4
    /\ hist.key.brush = "bridge"
    /\ hist.before.object.rotation = 90
    /\ Addressed(board, hist.key.pick).object.rotation = 90

\* C6: a floor paint in cells mode leaves {none, 0} on a cell that held a
\* bridge and leaves the object of any other cell as it was.
C6_FloorPaint ==
    [][\A pick \in PickCells :
          (mode = "cells" /\ cellBrush = "floor" /\ applyPick(pick)) =>
              At(board'.objects, idxCell(pick.x, pick.y)) =
                  IF ObjectAt(idxCell(pick.x, pick.y)).type = "bridge"
                  THEN NoObject ELSE ObjectAt(idxCell(pick.x, pick.y))]_vars

\* Floor was just painted on a cell that held a bridge turned to 180.
C6_Witness ==
    /\ hist.n = 1 /\ hist.key.mode = "cells" /\ hist.key.brush = "floor"
    /\ hist.before.object.type = "bridge" /\ hist.before.object.rotation = 180
    /\ Addressed(board, hist.key.pick).object = NoObject
    /\ Addressed(board, hist.key.pick).cell = "floor"

---------------------------------------------------------------------------
(* Loading documents: a short editing session (water, a light, an asset,  *)
(* selections) that ends with the load of a hand-written document; the     *)
(* session stops after the load.  The documents vary the four board arrays *)
(* independently: well formed, too short, not an array, null, absent.      *)

SampleCells == [Fill(GRID_W * GRID_H, "floor") EXCEPT ![3] = "pit", ![6] = "water"]
SampleHEdges == [Fill((GRID_H + 1) * GRID_W, "none") EXCEPT ![1] = "wall", ![18] = "door"]
SampleVEdges == [Fill(GRID_H * (GRID_W + 1), "none") EXCEPT ![8] = "door"]
SampleObjects ==
    [Fill(GRID_W * GRID_H, ObjectJson(NoObject)) EXCEPT
        ![1] = [type |-> "lever", rotation |-> 90],
        ![3] = [type |-> "bridge", rotation |-> 0],
        ![6] = [type |-> "light", rotation |-> 270,
                light |-> [color |-> "#00ff00", intensity |-> 120, distance |-> 50, decay |-> 10]]]

Shorter(a) == SubSeq(a, 1, 10)

CellsVariants == {JArr(SampleCells), JArr(Shorter(SampleCells)), JStr("x"), JNull, Undef}
HEdgesVariants == {JArr(SampleHEdges), JArr(Shorter(SampleHEdges))}
VEdgesVariants == {JArr(SampleVEdges), Undef}
ObjectsVariants == {JArr(SampleObjects), JStr("x")}

BoardDocs ==
    {JObj([version |-> JNum(1),
           board |-> JObj([cells |-> c, hEdges |-> h, vEdges |-> v, objects |-> o])]) :
        c \in CellsVariants, h \in HEdgesVariants, v \in VEdgesVariants, o \in ObjectsVariants}

BrokenDocs ==
    {[j |-> "syntax error"], JNull, JNum(5), JStr("dungeon"),
     JObj([version |-> JNum(1)]), JObj([version |-> JNum(1), board |-> JNull]),
     JArr(<<>>)}

LoadDocs == BoardDocs \cup BrokenDocs

NextLoad ==
    \/ \E m \in {"cells", "objects"} : ~AfterLoad /\ SetMode(m) /\ UNCHANGED hist
    \/ \E t \in {"water"} : ~AfterLoad /\ SetCellBrush(t) /\ UNCHANGED hist
    \/ \E t \in {"light"} : ~AfterLoad /\ SetObjectBrush(t) /\ UNCHANGED hist
    \/ \E name \in {"chest"} : ~AfterLoad /\ loadCustomGlb(name) /\ UNCHANGED hist
    \/ \E name \in {"chest"} : ~AfterLoad /\ SelectTemplate(name) /\ UNCHANGED hist
    \/ \E pick \in PickCells : ~AfterLoad /\ applyPick(pick) /\ UNCHANGED hist
    \/ ~AfterLoad /\ ClearStatus /\ UNCHANGED hist
    \/ \E data \in LoadDocs : ~AfterLoad /\ importJson(data) /\ hist' = LoadRecord(data)

SpecLoad == Init /\ [][NextLoad]_vars

---------------------------------------------------------------------------
(* Claims about loading (SpecLoad) *)

\* One of the four arrays of the loaded document's board.
FieldOf(doc, f) == Get(Get(doc, "board"), f)
IsArrayOfLen(v, n) == v.j = "array" /\ Len(v.a) = n
BoardPresent(doc) == Truthy(Get(doc, "board"))
FieldsPresent(doc) ==
    \A f \in {"cells", "hEdges", "vEdges", "objects"} : Truthy(FieldOf(doc, f))

\* Each array of the board is the document's when that one is an array of
\* the right length, and the empty board's otherwise.
PerFieldFallback(doc) ==
    /\ board.cells = IF IsArrayOfLen(FieldOf(doc, "cells"), GRID_W * GRID_H)
                     THEN FieldOf(doc, "cells").a ELSE makeEmptyState.cells
    /\ board.hEdges = IF IsArrayOfLen(FieldOf(doc, "hEdges"), (GRID_H + 1) * GRID_W)
                      THEN FieldOf(doc, "hEdges").a ELSE makeEmptyState.hEdges
    /\ board.vEdges = IF IsArrayOfLen(FieldOf(doc, "vEdges"), GRID_H * (GRID_W + 1))
                      THEN FieldOf(doc, "vEdges").a ELSE makeEmptyState.vEdges
    /\ board.objects = IF IsArrayOfLen(FieldOf(doc, "objects"), GRID_W * GRID_H)
                       THEN SeqMap(ReadObject, FieldOf(doc, "objects").a)
                       ELSE makeEmptyState.objects

C9_ShortCellsReset ==
    (/\ AfterLoad
     /\ FieldOf(hist.doc, "cells").j = "array"
     /\ Len(FieldOf(hist.doc, "cells").a) # GRID_W * GRID_H
     /\ IsArrayOfLen(FieldOf(hist.doc, "hEdges"), (GRID_H + 1) * GRID_W)
     /\ IsArrayOfLen(FieldOf(hist.doc, "vEdges"), GRID_H * (GRID_W + 1))
     /\ IsArrayOfLen(FieldOf(hist.doc, "objects"), GRID_W * GRID_H))
    => /\ \A i \in CellIndexes : CellAt(i) = "floor"
       /\ Len(board.cells) = GRID_W * GRID_H
       /\ board.hEdges = FieldOf(hist.doc, "hEdges").a
       /\ board.vEdges = FieldOf(hist.doc, "vEdges").a
       /\ \A i \in CellIndexes :
             ObjectAt(i) = ReadObject(At(FieldOf(hist.doc, "objects").a, i))

\* The document with ten cells was loaded over a board with a water cell:
\* the water is gone, the document's wall, door, lever and light are there.
C9_Witness ==
    /\ AfterLoad
    /\ FieldOf(hist.doc, "cells") = JArr(Shorter(SampleCells))
    /\ \E i \in CellIndexes : At(hist.before.board.cells, i) = "water"
    /\ \A i \in CellIndexes : CellAt(i) = "floor"
    /\ At(board.hEdges, 0) = "wall" /\ At(board.vEdges, 7) = "door"
    /\ ObjectAt(0).type = "lever" /\ ObjectAt(5).light # <<>>

\* The parsed document is not an object, or has no board.
StructuralFailure(doc) == doc.j \notin {"object", "array"} \/ ~BoardPresent(doc)

\* C10: after a load rejected for structural failure the error is signalled
\* and the board, the asset list, the light selection and the asset
\* selection are those from before the load.
C10_RejectedLoadKeepsState ==
    (AfterLoad /\ StructuralFailure(hist.doc)) =>
        /\ status = StatusLoadError
        /\ board = hist.before.board
        /\ customObjects = hist.before.customObjects
        /\ selectedLightCell = hist.before.selectedLightCell
        /\ editingLight = hist.before.editingLight
        /\ selectedCustomId = hist.before.selectedCustomId

\* A document without a board was rejected while a light and an asset were
\* placed and selected.
C10_Witness ==
    /\ AfterLoad /\ hist.doc = JObj([version |-> JNum(1)])
    /\ status = StatusLoadError
    /\ selectedLightCell # <<>> /\ selectedCustomId # <<>>
    /\ customObjects # <<>>
    /\ \E i \in CellIndexes : IsLight(ObjectAt(i))

---------------------------------------------------------------------------
(* Export and load: a session of edits (a light and its rotation, assets, *)
(* their sliders and drags) is exported; the board may then be             *)
(* reset, and the exported document is loaded.  The session stops after    *)
(* the load.                                                               *)

Exported == file # <<>>
MaxPlaced == 1
AssetPartials == {[yOffset |-> -50], [rotation |-> 90]}
DragFrom == {CellPick(1, 1)}
DragTo == {CellPick(3, 2)}
MouseDown == {400}
MouseMove == {250}

\* History of an export and of the load that follows it.
ExportRecord == [n |-> 0, exported |-> EditorState]
CodecRecord(data) ==
    [n |-> 0, doc |-> data, before |-> EditorState, exported |-> hist.exported]

NextCodec ==
    \/ \E m \in {"objects"} : ~Exported /\ SetMode(m) /\ UNCHANGED hist
    \/ \E t \in {"light"} : ~Exported /\ SetObjectBrush(t) /\ UNCHANGED hist
    \/ \E pick \in PickCells :
          ~Exported /\ applyPick(pick) /\ nextCustomId' <= MaxPlaced + 1 /\ UNCHANGED hist
    \/ \E name \in {"chest"} : ~Exported /\ loadCustomGlb(name) /\ UNCHANGED hist
    \/ \E name \in {"chest"} : ~Exported /\ SelectTemplate(name) /\ UNCHANGED hist
    \/ \E partial \in AssetPartials :
          ~Exported /\ updateSelectedCustom(partial) /\ UNCHANGED hist
    \/ \E from \in DragFrom, alt \in BOOLEAN, clientY \in MouseDown :
          ~Exported /\ startCustomDrag(from.x, from.y, alt, clientY) /\ UNCHANGED hist
    \/ \E to \in DragTo, clientY \in MouseMove :
          ~Exported /\ handleCustomDrag(to.x, to.y, clientY) /\ UNCHANGED hist
    \/ ~Exported /\ endCustomDrag /\ UNCHANGED hist
    \/ ~Exported /\ exportJson /\ hist' = ExportRecord
    \/ Exported /\ ~AfterLoad /\ resetAll /\ UNCHANGED hist
    \/ Exported /\ ~AfterLoad /\ importJson(file[1]) /\ hist' = CodecRecord(file[1])

SpecCodec == Init /\ [][NextCodec]_vars

---------------------------------------------------------------------------
(* Claims about export and load (SpecCodec) *)

\* C7: after the exported document is loaded, the board and the asset list
\* equal the board and the asset list that were exported: the same cells,
\* edges and objects with rotation and light payload, the same asset ids,
\* names, coordinates, scale, offset and rotation.
C7_RoundTrip ==
    AfterLoad =>
        /\ status = StatusLoaded
        /\ board = hist.exported.board
        /\ customObjects = hist.exported.customObjects

\* The export of a board with a turned light and of an asset that was
\* scaled and moved by drags and set by both sliders was loaded over a
\* board that had been reset.
C7_Witness ==
    /\ AfterLoad
    /\ hist.doc = Serialize(hist.exported.board, hist.exported.customObjects)
    /\ hist.before.board = makeEmptyState
    /\ \E i \in CellIndexes : IsLight(ObjectAt(i)) /\ ObjectAt(i).rotation = 90
    /\ \E k \in 1..Len(customObjects) :
          /\ customObjects[k].x = 3 /\ customObjects[k].y = 2
          /\ customObjects[k].scale = 250 /\ customObjects[k].yOffset = -50
          /\ customObjects[k].rotation = 90 /\ customObjects[k].name = "chest"

---------------------------------------------------------------------------
(* Picking: the ground-plane point under the mouse, in hundredths of a    *)
(* cell (lx, lz are p.x + halfW and p.z + halfH, so 0..400 on the pick    *)
(* plane), and the pick made of it.                                        *)

cellSize == 100
edgeSnap == (18 * cellSize) \div 100

\* Mutant of Snaps: the comparison is reversed.
Snaps_Reversed(minD) == minD >= edgeSnap

\* Line 993: the point is close enough to a border.
Snaps(minD) == minD <= edgeSnap

\* Mutant of NearestBorder: the left and right borders are tested first.
NearestBorder_SidesFirst(dLeft, dRight, dTop, dBottom) ==
    LET minD == Min2(Min2(dLeft, dRight), Min2(dTop, dBottom))
    IN  IF minD = dLeft THEN "left"
        ELSE IF minD = dRight THEN "right"
        ELSE IF minD = dTop THEN "top"
        ELSE "bottom"

\* Lines 994-997: the border whose distance is the smallest, the first of
\* top, bottom, left, right when several are.
NearestBorder(dLeft, dRight, dTop, dBottom) ==
    LET minD == Min2(Min2(dLeft, dRight), Min2(dTop, dBottom))
    IN  IF minD = dTop THEN "top"
        ELSE IF minD = dBottom THEN "bottom"
        ELSE IF minD = dLeft THEN "left"
        ELSE "right"

\* Mutant of EdgeOf: the right border is given the direction h.
EdgeOf_RightAsH(border, cx, cy) ==
    IF border = "top" THEN EdgePick("h", cx, cy)
    ELSE IF border = "bottom" THEN EdgePick("h", cx, cy + 1)
    ELSE IF border = "left" THEN EdgePick("v", cx, cy)
    ELSE EdgePick("h", cx + 1, cy)

\* Lines 994-997: the edge address of a border of cell (cx, cy).
EdgeOf(border, cx, cy) ==
    IF border = "top" THEN EdgePick("h", cx, cy)
    ELSE IF border = "bottom" THEN EdgePick("h", cx, cy + 1)
    ELSE IF border = "left" THEN EdgePick("v", cx, cy)
    ELSE EdgePick("v", cx + 1, cy)

\* Mutant of pickFromMouse: the mode is not looked at.
pickFromMouse_AnyMode(m, lx, lz) ==
    LET cx == clamp(lx \div cellSize, 0, GRID_W - 1)
        cy == clamp(lz \div cellSize, 0, GRID_H - 1)
        localX == lx - cx * cellSize
        localZ == lz - cy * cellSize
        dLeft == localX
        dRight == cellSize - localX
        dTop == localZ
        dBottom == cellSize - localZ
        minD == Min2(Min2(dLeft, dRight), Min2(dTop, dBottom))
    IN  IF Snaps(minD) THEN EdgeOf(NearestBorder(dLeft, dRight, dTop, dBottom), cx, cy)
        ELSE CellPick(cx, cy)

\* Lines 976-1007: the pick of the point (lx, lz) in mode m.
pickFromMouse(m, lx, lz) ==
    LET cx == clamp(lx \div cellSize, 0, GRID_W - 1)
        cy == clamp(lz \div cellSize, 0, GRID_H - 1)
        localX == lx - cx * cellSize
        localZ == lz - cy * cellSize
        dLeft == localX
        dRight == cellSize - localX
        dTop == localZ
        dBottom == cellSize - localZ
        minD == Min2(Min2(dLeft, dRight), Min2(dTop, dBottom))
    IN  IF m # "edges" THEN CellPick(cx, cy)
        ELSE IF Snaps(minD) THEN EdgeOf(NearestBorder(dLeft, dRight, dTop, dBottom), cx, cy)
        ELSE CellPick(cx, cy)

\* Lines 952-1010: a left click whose ray meets the pick plane at (lx, lz).
MouseDownAt(lx, lz) == applyPick(pickFromMouse(mode, lx, lz))

\* History of a click: the point, the mode and the pick made of it.
ClickRecord(lx, lz) ==
    [n |-> 0, lx |-> lx, lz |-> lz, mode |-> mode, pick |-> pickFromMouse(mode, lx, lz)]
Clicked == "pick" \in DOMAIN hist

\* The sampled coordinates: in every column and row of cells the borders,
\* the snap threshold on both sides of it, 0.05 and 0.02 from a border, the
\* middle.
Offsets == {0, 5, 18, 19, 50, 81, 82, 95, 98}
Coordinates == {c * cellSize + d : c \in 0..(GRID_W - 1), d \in Offsets} \cup {GRID_W * cellSize}

NextPick ==
    \/ \E m \in ToolModes : ~Clicked /\ SetMode(m) /\ UNCHANGED hist
    \/ \E t \in {"door"} : ~Clicked /\ SetEdgeBrush(t) /\ UNCHANGED hist
    \/ \E t \in {"water"} : ~Clicked /\ SetCellBrush(t) /\ UNCHANGED hist
    \/ \E lx \in Coordinates, lz \in Coordinates :
          ~Clicked /\ MouseDownAt(lx, lz) /\ hist' = ClickRecord(lx, lz)

SpecPick == Init /\ [][NextPick]_vars

---------------------------------------------------------------------------
(* Claims about picking (SpecPick) *)

\* The candidate cell of the clicked point and the distances of the point
\* to the borders of that cell.
ClickCx == clamp(hist.lx \div cellSize, 0, GRID_W - 1)
ClickCy == clamp(hist.lz \div cellSize, 0, GRID_H - 1)
ClickLeft == hist.lx - ClickCx * cellSize
ClickRight == cellSize - ClickLeft
ClickTop == hist.lz - ClickCy * cellSize
ClickBottom == cellSize - ClickTop
ClickMin == Min2(Min2(ClickLeft, ClickRight), Min2(ClickTop, ClickBottom))

\* C17: when the mode is not edges, the pick of any ground-plane point is
\* the cell pick (cx, cy) with cx = clamp(floor(lx), 0, 3) and
\* cy = clamp(floor(lz), 0, 3), however close the point is to a border.
C17_CellPickOutsideEdges ==
    (Clicked /\ hist.mode # "edges") => hist.pick = CellPick(ClickCx, ClickCy)

\* In objects mode a click on the border between cells (1,0) and (2,0) put
\* the lever on cell (2,0).
C17_Witness ==
    /\ Clicked /\ hist.mode = "objects"
    /\ hist.lx = 2 * cellSize /\ hist.lz = 50
    /\ hist.pick = CellPick(2, 0)
    /\ ObjectAt(idxCell(2, 0)).type = "lever"

\* C18: in edges mode, if the smallest border distance is at most 0.18 the
\* pick is the edge of the nearest border, ties in the order top, bottom,
\* left, right, with top -> h (cx,cy), bottom -> h (cx,cy+1),
\* left -> v (cx,cy), right -> v (cx+1,cy); otherwise the cell pick (cx,cy).
C18_EdgeSnap ==
    (Clicked /\ hist.mode = "edges") =>
        IF ClickMin <= 18
        THEN hist.pick =
               IF ClickTop = ClickMin THEN EdgePick("h", ClickCx, ClickCy)
               ELSE IF ClickBottom = ClickMin THEN EdgePick("h", ClickCx, ClickCy + 1)
               ELSE IF ClickLeft = ClickMin THEN EdgePick("v", ClickCx, ClickCy)
               ELSE EdgePick("v", ClickCx + 1, ClickCy)
        ELSE hist.pick = CellPick(ClickCx, ClickCy)

\* A click at equal distance 0.05 from the top and the left border of cell
\* (1,1) toggled the h-edge (1,1).
C18_Witness ==
    /\ Clicked /\ hist.mode = "edges"
    /\ ClickCx = 1 /\ ClickCy = 1 /\ ClickTop = 5 /\ ClickLeft = 5
    /\ hist.pick = EdgePick("h", 1, 1)
    /\ At(board.hEdges, idxHEdge(1, 1)) = "wall"
    /\ At(board.vEdges, idxVEdge(1, 1)) = "none"

\* C19 as stated: in edges mode every point of cell (2,0) at distance 0.05
\* from the top border yields the h-edge (2,0), whatever its distance to the
\* left and right borders.
C19_Original ==
    (/\ Clicked /\ hist.mode = "edges"
     /\ hist.lx >= 2 * cellSize /\ hist.lx < 3 * cellSize /\ hist.lz = 5)
    => hist.pick = EdgePick("h", 2, 0)

\* C19 amended: in edges mode every point of cell (2,0) at distance 0.05
\* from the top border and at least 0.05 from the left and the right border
\* yields the h-edge (2,0); a point nearer than 0.05 to the left border yields
\* the v-edge (2,0), one nearer than 0.05 to the right border the v-edge (3,0).
C19_TopBorderPick ==
    (/\ Clicked /\ hist.mode = "edges"
     /\ hist.lx >= 2 * cellSize /\ hist.lx < 3 * cellSize /\ hist.lz = 5)
    => hist.pick = IF ClickLeft < 5 THEN EdgePick("v", 2, 0)
                   ELSE IF ClickRight < 5 THEN EdgePick("v", 3, 0)
                   ELSE EdgePick("h", 2, 0)

\* A click 0.05 under the top border of cell (2,0), in the middle of the
\* border, put a door on the h-edge (2,0).
C19_Witness ==
    /\ Clicked /\ hist.mode = "edges"
    /\ hist.lx = 2 * cellSize + 50 /\ hist.lz = 5
    /\ hist.pick = EdgePick("h", 2, 0)
    /\ At(board.hEdges, idxHEdge(2, 0)) = "door"

\* C20: the pick of every point, in every mode, has cell coordinates in
\* [0,3], h-edge coordinates x in [0,3] and y in [0,4], or v-edge
\* coordinates x in [0,4] and y in [0,3]; so idxCell is in [0,16) and
\* idxHEdge and idxVEdge are in [0,20), inside the arrays of the board.
C20_PickInRange ==
    Clicked =>
        IF hist.pick.kind = "cell"
        THEN /\ hist.pick.x \in 0..(GRID_W - 1) /\ hist.pick.y \in 0..(GRID_H - 1)
             /\ idxCell(hist.pick.x, hist.pick.y) + 1 \in DOMAIN board.cells
             /\ idxCell(hist.pick.x, hist.pick.y) + 1 \in DOMAIN board.objects
        ELSE IF hist.pick.dir = "h"
        THEN /\ hist.pick.x \in 0..(GRID_W - 1) /\ hist.pick.y \in 0..GRID_H
             /\ idxHEdge(hist.pick.x, hist.pick.y) + 1 \in DOMAIN board.hEdges
        ELSE /\ hist.pick.x \in 0..GRID_W /\ hist.pick.y \in 0..(GRID_H - 1)
             /\ idxVEdge(hist.pick.x, hist.pick.y) + 1 \in DOMAIN board.vEdges

\* A click on the far corner of the plane in edges mode toggled the last
\* h-edge of the board.
C20_Witness ==
    /\ Clicked /\ hist.lx = GRID_W * cellSize /\ hist.lz = GRID_H * cellSize
    /\ hist.pick = EdgePick("h", 3, 4)
    /\ At(board.hEdges, (GRID_H + 1) * GRID_W - 1) = "wall"

---------------------------------------------------------------------------
(* External assets in one session, without loads: the lever and the       *)
(* eraser on one cell, two templates, asset clicks on two cells and drag   *)
(* moves between them.                                                     *)

AssetCells == {CellPick(1, 1), CellPick(2, 1)}
TemplateNames == {"chest", "orc"}

NextAssets ==
    \/ \E m \in {"objects"} : SetMode(m) /\ UNCHANGED hist
    \/ \E t \in {"lever", "none"} : SetObjectBrush(t) /\ UNCHANGED hist
    \/ \E name \in TemplateNames : loadCustomGlb(name) /\ UNCHANGED hist
    \/ \E name \in TemplateNames : SelectTemplate(name) /\ UNCHANGED hist
    \/ \E pick \in PickCells : ~AssetPath(pick) /\ applyPick(pick) /\ UNCHANGED hist
    \/ \E pick \in AssetCells :
          AssetPath(pick) /\ applyPick(pick) /\ nextCustomId' <= MaxId /\ UNCHANGED hist
    \/ \E k \in 1..MaxId : SelectCustom(k) /\ UNCHANGED hist
    \/ \E from \in AssetCells, clientY \in MouseDown :
          startCustomDrag(from.x, from.y, FALSE, clientY) /\ UNCHANGED hist
    \/ \E to \in AssetCells, clientY \in MouseMove :
          handleCustomDrag(to.x, to.y, clientY) /\ UNCHANGED hist
    \/ endCustomDrag /\ UNCHANGED hist

SpecAssets == Init /\ [][NextAssets]_vars

---------------------------------------------------------------------------
(* Claims about external assets (SpecAssets) *)

\* The conditions of the external-asset path, as the claims state them.
OnAssetPath(pick) ==
    mode = "objects" /\ pick.kind = "cell" /\ customBrush # <<>> /\ objectBrush = "none"

\* The positions in the list of the placements at cell (x, y).
PlacedAt(list, x, y) == {k \in 1..Len(list) : list[k].x = x /\ list[k].y = y}

\* C12: whenever mode is objects, the pick is a cell, a template is
\* selected and the object brush is none, applying the pick leaves cells,
\* hEdges, vEdges and objects unchanged, whatever object the cell holds (and
\* the tools and the light selection with them).
C12_AssetPathKeepsBoard ==
    [][\A pick \in AssetCells :
          (OnAssetPath(pick) /\ applyPick(pick)) =>
              (board' = board /\ UNCHANGED <<toolVars, lightVars>>)]_vars

\* An asset was placed on a cell that holds a turned lever, with the eraser
\* as object brush.
C12_Witness ==
    /\ mode = "objects" /\ customBrush # <<>> /\ objectBrush = "none"
    /\ \E pick \in AssetCells :
          /\ ObjectAt(idxCell(pick.x, pick.y)).type = "lever"
          /\ ObjectAt(idxCell(pick.x, pick.y)).rotation = 90
          /\ PlacedAt(customObjects, pick.x, pick.y) # {}
          /\ selectedCustomId # <<>>

C14_OnePerTemplateAndCell ==
    \A j, k \in 1..Len(customObjects) :
        (j # k /\ customObjects[j].name = customObjects[k].name)
            => ~(customObjects[j].x = customObjects[k].x
                 /\ customObjects[j].y = customObjects[k].y)

---------------------------------------------------------------------------
(* Sessions: assets are placed and erased by clicks on the asset path,    *)
(* the document is exported, the page may be reloaded (the component is    *)
(* mounted anew, the exported file stays on disk), the file is loaded and  *)
(* assets are placed again.                                                *)

\* Lines 96-133, 148-152: the component is mounted anew; every piece of
\* state is back at its initialiser.
Reload ==
    /\ board' = makeEmptyState
    /\ mode' = "cells"
    /\ cellBrush' = "floor"
    /\ edgeBrush' = "wall"
    /\ objectBrush' = "lever"
    /\ selectedLightCell' = <<>>
    /\ editingLight' = <<>>
    /\ status' = NoStatus
    /\ customTemplates' = {}
    /\ customBrush' = <<>>
    /\ customObjects' = <<>>
    /\ selectedCustomId' = <<>>
    /\ nextCustomId' = 1
    /\ dragState' = NoDrag
    /\ UNCHANGED file

NextSession ==
    \/ \E m \in {"objects"} : SetMode(m) /\ UNCHANGED hist
    \/ \E name \in {"chest"} : loadCustomGlb(name) /\ UNCHANGED hist
    \/ \E name \in {"chest"} : SelectTemplate(name) /\ UNCHANGED hist
    \/ \E pick \in AssetCells :
          AssetPath(pick) /\ applyPick(pick) /\ nextCustomId' <= MaxId /\ UNCHANGED hist
    \/ ~Exported /\ exportJson /\ UNCHANGED hist
    \/ Exported /\ Reload /\ UNCHANGED hist
    \/ Exported /\ importJson(file[1]) /\ UNCHANGED hist

SpecSession == Init /\ [][NextSession]_vars

\* C11: in every reachable state the ids of the placements in the list are
\* pairwise distinct, also after the load of an exported document that is
\* followed by the placement of a new asset.
C11_DistinctIds ==
    \A j, k \in 1..Len(customObjects) :
        j # k => customObjects[j].id # customObjects[k].id

---------------------------------------------------------------------------
(* Loading asset placements: assets are placed by clicks (so that the id  *)
(* counter varies), then a hand-written document with a well-formed board  *)
(* and up to MaxEntries asset entries is loaded; the session stops after   *)
(* the load.                                                               *)

MaxEntries == 3

\* The entries: complete; without id and url, every number out of range
\* and a rotation that is a string; only name and position, the scale a
\* string; a rotation of two turns; the name a number; x a string; null.
SampleEntries ==
    {JObj([id |-> JNum(7), name |-> JStr("chest"), url |-> JStr("chest.glb"),
           x |-> JNum(1), y |-> JNum(2), scale |-> JNum(150), yOffset |-> JNum(50),
           rotation |-> JNum(90)]),
     JObj([name |-> JStr("orc"), x |-> JNum(9), y |-> JNum(-2), scale |-> JNum(500),
           yOffset |-> JNum(-300), rotation |-> JStr("90")]),
     JObj([name |-> JStr("urn"), x |-> JNum(0), y |-> JNum(3), scale |-> JStr("2"),
           url |-> JNull]),
     JObj([id |-> JNum(1), name |-> JStr("chest"), x |-> JNum(2), y |-> JNum(1),
           scale |-> JNum(10), yOffset |-> JNum(400), rotation |-> JNum(720)]),
     JObj([id |-> JNum(4), name |-> JNum(3), x |-> JNum(1), y |-> JNum(1)]),
     JObj([id |-> JNum(5), name |-> JStr("orc"), x |-> JStr("1"), y |-> JNum(1)]),
     JNull}

RECURSIVE SeqsUpTo(_, _)
SeqsUpTo(S, n) ==
    IF n = 0 THEN {<<>>}
    ELSE SeqsUpTo(S, n - 1) \cup
         {Append(q, e) : q \in {r \in SeqsUpTo(S, n - 1) : Len(r) = n - 1}, e \in S}

AssetDocs ==
    {JObj([version |-> JNum(1),
           board |-> Get(Serialize(makeEmptyState, <<>>), "board"),
           customObjects |-> JArr(entries)]) : entries \in SeqsUpTo(SampleEntries, MaxEntries)}

NextAssetLoad ==
    \/ \E m \in {"objects"} : ~AfterLoad /\ SetMode(m) /\ UNCHANGED hist
    \/ \E name \in {"chest"} : ~AfterLoad /\ loadCustomGlb(name) /\ UNCHANGED hist
    \/ \E name \in {"chest"} : ~AfterLoad /\ SelectTemplate(name) /\ UNCHANGED hist
    \/ \E pick \in AssetCells :
          ~AfterLoad /\ AssetPath(pick) /\ applyPick(pick) /\ UNCHANGED hist
    \/ \E data \in AssetDocs : ~AfterLoad /\ importJson(data) /\ hist' = LoadRecord(data)

SpecAssetLoad == Init /\ [][NextAssetLoad]_vars

---------------------------------------------------------------------------
(* Claims about loading asset placements (SpecAssetLoad) *)

\* C15: in every reachable state every placement has x and y in [0,3],
\* scale in [0.3,3], vertical offset in [-1,3] and rotation in [0,360).
C15_PlacementsInRange ==
    \A k \in 1..Len(customObjects) :
        /\ customObjects[k].x >= 0 /\ customObjects[k].x <= GRID_W - 1
        /\ customObjects[k].y >= 0 /\ customObjects[k].y <= GRID_H - 1
        /\ customObjects[k].scale >= 30 /\ customObjects[k].scale <= 300
        /\ customObjects[k].yOffset >= -100 /\ customObjects[k].yOffset <= 300
        /\ customObjects[k].rotation >= 0 /\ customObjects[k].rotation < 360

\* An entry with a string name and numeric x and y.
IsKept(c) ==
    Get(c, "name").j = "string" /\ Get(c, "x").j = "number" /\ Get(c, "y").j = "number"
HasId(c) == Get(c, "id").j = "number"
KeptEntries == SelectSeq(Get(hist.doc, "customObjects").a, IsKept)

\* C16: after a load, the list holds exactly the entries with a string name
\* and numeric x and y, in the document's order; a numeric id is preserved
\* and the entries without one take the counter's successive values; x and y
\* are clamped into [0,3], a numeric scale into [0.3,3] (default 1), a numeric
\* offset into [-1,3] (default 0); a non-numeric rotation is 0, a numeric one
\* is kept.
C16_LoadedPlacements ==
    AfterLoad =>
        /\ Len(customObjects) = Len(KeptEntries)
        /\ \A i \in 1..Len(KeptEntries) :
              LET c == KeptEntries[i]
                  p == customObjects[i]
                  fresh == Cardinality({j \in 1..(i - 1) : ~HasId(KeptEntries[j])})
              IN  /\ p.name = Get(c, "name").s
                  /\ p.id = IF HasId(c) THEN Get(c, "id").n
                            ELSE hist.before.nextCustomId + fresh
                  /\ p.x = Max2(0, Min2(GRID_W - 1, Get(c, "x").n))
                  /\ p.y = Max2(0, Min2(GRID_H - 1, Get(c, "y").n))
                  /\ p.scale = IF Get(c, "scale").j = "number"
                               THEN Max2(30, Min2(300, Get(c, "scale").n)) ELSE 100
                  /\ p.yOffset = IF Get(c, "yOffset").j = "number"
                                 THEN Max2(-100, Min2(300, Get(c, "yOffset").n)) ELSE 0
                  /\ p.rotation = IF Get(c, "rotation").j = "number"
                                  THEN Get(c, "rotation").n ELSE 0
        /\ nextCustomId = hist.before.nextCustomId
                          + Cardinality({j \in 1..Len(KeptEntries) : ~HasId(KeptEntries[j])})

\* With the counter at 2, a document with an entry without id and with every
\* number out of range, a null entry and an entry with only a name and a
\* position was loaded: two placements, with ids 2 and 3.
C16_Witness ==
    /\ AfterLoad /\ hist.before.nextCustomId = 2
    /\ Len(Get(hist.doc, "customObjects").a) = 3
    /\ Get(hist.doc, "customObjects").a[2] = JNull
    /\ Len(customObjects) = 2
    /\ customObjects[1].id = 2 /\ customObjects[1].name = "orc"
    /\ customObjects[1].x = 3 /\ customObjects[1].y = 0
    /\ customObjects[1].scale = 300 /\ customObjects[1].yOffset = -100
    /\ customObjects[1].rotation = 0
    /\ customObjects[2].id = 3 /\ customObjects[2].name = "urn"
    /\ customObjects[2].scale = 100
    /\ nextCustomId = 4

---------------------------------------------------------------------------
(* Addressing: two addresses of one kind (cells, horizontal edges,        *)
(* vertical edges) and an index of that kind's array are drawn; one step   *)
(* computes the indexes of the two addresses and the addresses that are    *)
(* stored at the drawn index.                                              *)

AddressKinds == {"cell", "h", "v"}

\* The addresses of a kind: lines 53-61 (the arrays' sizes) and 969-1008.
Addresses(kind) ==
    CASE kind = "cell" -> (0..(GRID_W - 1)) \X (0..(GRID_H - 1))
      [] kind = "h"    -> (0..(GRID_W - 1)) \X (0..GRID_H)
      [] kind = "v"    -> (0..GRID_W) \X (0..(GRID_H - 1))

\* Lines 1107, 1174, 1178: the index function applyPick uses for a kind.
IndexOf(kind, a) ==
    CASE kind = "cell" -> idxCell(a[1], a[2])
      [] kind = "h"    -> idxHEdge(a[1], a[2])
      [] kind = "v"    -> idxVEdge(a[1], a[2])

\* The length of the array of a kind in makeEmptyState.
ArrayLen(kind) ==
    CASE kind = "cell" -> Len(makeEmptyState.cells)
      [] kind = "h"    -> Len(makeEmptyState.hEdges)
      [] kind = "v"    -> Len(makeEmptyState.vEdges)

Probes ==
    UNION {[n : {0}, kind : {kind}, a : Addresses(kind), b : Addresses(kind),
            k : 0..(ArrayLen(kind) - 1)] : kind \in AddressKinds}

InitIndex ==
    /\ board = makeEmptyState
    /\ mode = "cells"
    /\ cellBrush = "floor"
    /\ edgeBrush = "wall"
    /\ objectBrush = "lever"
    /\ selectedLightCell = <<>>
    /\ editingLight = <<>>
    /\ status = NoStatus
    /\ customTemplates = {}
    /\ customBrush = <<>>
    /\ customObjects = <<>>
    /\ selectedCustomId = <<>>
    /\ nextCustomId = 1
    /\ dragState = NoDrag
    /\ file = <<>>
    /\ hist \in Probes

Indexed == "ia" \in DOMAIN hist

ComputeIndexes ==
    /\ ~Indexed
    /\ hist' = [n |-> 0, kind |-> hist.kind, a |-> hist.a, b |-> hist.b, k |-> hist.k,
                ia |-> IndexOf(hist.kind, hist.a),
                ib |-> IndexOf(hist.kind, hist.b),
                at |-> {c \in Addresses(hist.kind) : IndexOf(hist.kind, c) = hist.k}]
    /\ UNCHANGED <<board, toolVars, lightVars, status, assetVars, file>>

NextIndex == ComputeIndexes

SpecIndex == InitIndex /\ [][NextIndex]_vars

\* C21: idxCell(x, y) = 4y + x is a bijection of the 16 cell coordinates
\* onto [0, 16); idxHEdge(x, y) = 4y + x is a bijection of the 20 horizontal
\* edge coordinates (x in [0, 3], y in [0, 4]) onto [0, 20); idxVEdge(x, y) =
\* 5y + x is a bijection of the 20 vertical edge coordinates (x in [0, 4],
\* y in [0, 3]) onto [0, 20): the index has the stated value and lies in the
\* range, two addresses with one index are the same address, and every index
\* of the range is the index of exactly one address.
C21_IndexBijection ==
    Indexed =>
        /\ hist.ia = (IF hist.kind = "v" THEN 5 ELSE 4) * hist.a[2] + hist.a[1]
        /\ hist.ia \in 0..((IF hist.kind = "cell" THEN 16 ELSE 20) - 1)
        /\ hist.ia = hist.ib => hist.a = hist.b
        /\ Cardinality(hist.at) = 1

\* The last vertical edge of the first row and the first one of the second
\* row: indexes 4 and 5, and index 19 is the last vertical edge.
C21_Witness ==
    /\ Indexed /\ hist.kind = "v"
    /\ hist.a = <<4, 0>> /\ hist.ia = 4
    /\ hist.b = <<0, 1>> /\ hist.ib = 5
    /\ hist.k = 19 /\ hist.at = {<<4, 3>>}

---------------------------------------------------------------------------
(* The shape of the board: edits of one cell and one edge, Reset and the  *)
(* load of hand-written documents, in any order.                           *)

ShapeDocs ==
    BoardDocs \cup
    {JObj([version |-> JNum(1),
           board |-> JObj([cells |-> JArr(SampleCells), hEdges |-> JArr(SampleHEdges),
                           vEdges |-> JArr(SampleVEdges),
                           objects |-> JArr(Shorter(SampleObjects))])])}

NextShape ==
    \/ \E m \in ToolModes : SetMode(m) /\ UNCHANGED hist
    \/ \E t \in {"water"} : SetCellBrush(t) /\ UNCHANGED hist
    \/ \E t \in {"bridge"} : SetObjectBrush(t) /\ UNCHANGED hist
    \/ \E pick \in PickCells \cup PickEdges : applyPick(pick) /\ UNCHANGED hist
    \/ resetAll /\ UNCHANGED hist
    \/ \E data \in ShapeDocs : importJson(data) /\ UNCHANGED hist
    \/ ClearStatus /\ UNCHANGED hist

SpecShape == Init /\ [][NextShape]_vars

\* C22: in every reachable state (the initial one, after any edit, after
\* Reset, after any accepted load) cells and objects have exactly 16 entries
\* and hEdges and vEdges exactly 20.
C22_ArrayLengths ==
    /\ Len(board.cells) = 16
    /\ Len(board.objects) = 16
    /\ Len(board.hEdges) = 20
    /\ Len(board.vEdges) = 20

\* A document with a short cells array was loaded (the horizontal edges
\* are the document's, the cells are the default floor), then water was
\* painted and the loaded door was replaced by a wall.
C22_Witness ==
    /\ board.hEdges = SampleHEdges
    /\ At(board.cells, 2) = "floor"
    /\ At(board.cells, 5) = "water"
    /\ At(board.vEdges, 7) = "wall"
    /\ At(board.objects, 0).type = "lever"

---------------------------------------------------------------------------
(* Object editing on two cells: terrain, every object brush, the eraser,  *)
(* the light brush and the list of placed lights.                          *)

ObjectCells == {CellPick(1, 1), CellPick(2, 1)}

NextObjects ==
    \/ \E m \in {"cells", "objects"} : SetMode(m) /\ UNCHANGED hist
    \/ \E t \in {"water"} : SetCellBrush(t) /\ UNCHANGED hist
    \/ \E t \in ObjTypes : SetObjectBrush(t) /\ UNCHANGED hist
    \/ \E pick \in ObjectCells : applyPick(pick) /\ UNCHANGED hist
    \/ \E idx \in CellIndexes : SelectLight(idx) /\ UNCHANGED hist
    \/ ClearStatus /\ UNCHANGED hist

SpecObjects == Init /\ [][NextObjects]_vars

\* C23: the light brush placed on a cell in objects mode always succeeds,
\* whatever the terrain and the previous object: afterwards the cell's
\* object has type light, the rotation the cell's object had before and the
\* light brush's values as payload, the light selection points at the cell,
\* and the objects of the other cells are unchanged.
C23_LightBrush ==
    [][\A pick \in ObjectCells :
          (mode = "objects" /\ objectBrush = "light" /\ applyPick(pick)) =>
              LET i == idxCell(pick.x, pick.y)
              IN  /\ At(board'.objects, i) =
                        [type |-> "light", rotation |-> ObjectAt(i).rotation,
                         light |-> <<lightBrush>>]
                  /\ selectedLightCell' = <<i>>
                  /\ \A j \in CellIndexes \ {i} :
                        At(board'.objects, j) = ObjectAt(j)]_vars

\* A light on a water cell that stands at 90 degrees (lights are never
\* turned: the rotation is the one of the object the light replaced) and is
\* selected, next to a torch.
C23_Witness ==
    /\ ObjectAt(5) = [type |-> "light", rotation |-> 90, light |-> <<lightBrush>>]
    /\ CellAt(5) = "water"
    /\ selectedLightCell = <<5>>
    /\ ObjectAt(6).type = "torch"

\* The placements C24 is about: the eraser, or lever, trapdoor, torch or an
\* accepted bridge on a cell whose object has another type.
Replaces(pick) ==
    /\ mode = "objects" /\ ~AssetPath(pick)
    /\ \/ objectBrush = "none"
       \/ /\ objectBrush \in {"lever", "trapdoor", "torch", "bridge"}
          /\ objectBrush # ObjectAt(idxCell(pick.x, pick.y)).type
          /\ objectBrush = "bridge" => CellAt(idxCell(pick.x, pick.y)) \in {"water", "pit"}

\* C24: in objects mode, off the asset path, a placement whose brush differs
\* from the cell's object type (lever, trapdoor, torch, or bridge on water
\* or pit) leaves {brush, rotation 0, no light} whatever the rotation was,
\* and the eraser leaves {none, 0}; the light selection becomes null if it
\* pointed at the cell and is unchanged otherwise.
C24_ReplaceOrErase ==
    [][\A pick \in ObjectCells :
          (Replaces(pick) /\ applyPick(pick)) =>
              LET i == idxCell(pick.x, pick.y)
              IN  /\ At(board'.objects, i) =
                        [type |-> objectBrush, rotation |-> 0, light |-> <<>>]
                  /\ selectedLightCell' =
                        IF selectedLightCell = <<i>> THEN <<>> ELSE selectedLightCell]_vars

\* A bridge at rotation 0 on a cell that was painted water, while the
\* light of the other cell is still selected.
C24_Witness ==
    /\ ObjectAt(5) = [type |-> "bridge", rotation |-> 0, light |-> <<>>]
    /\ CellAt(5) = "water"
    /\ mode = "objects" /\ objectBrush = "bridge"
    /\ selectedLightCell = <<6>>
    /\ ObjectAt(6).type = "light" /\ ObjectAt(6).rotation = 180

---------------------------------------------------------------------------
(* Frame of an edge pick (SpecEdges) *)

EdgeIndexes == 0..(Len(makeEmptyState.hEdges) - 1)

\* C25: an edge pick in edges mode changes exactly one entry, the addressed
\* one of the array of its direction: it becomes none if it equalled the
\* brush and the brush otherwise (a door under the wall brush becomes wall);
\* every other edge, every cell and every object is unchanged.
C25_EdgePickFrame ==
    [][\A pick \in RunEdges :
          (mode = "edges" /\ applyPick(pick)) =>
              LET old == Addressed(board, pick).edge
                  new == IF old = edgeBrush THEN "none" ELSE edgeBrush
                  h == IF pick.dir = "h" THEN idxHEdge(pick.x, pick.y) ELSE -1
                  v == IF pick.dir = "v" THEN idxVEdge(pick.x, pick.y) ELSE -1
              IN  /\ board'.cells = board.cells
                  /\ board'.objects = board.objects
                  /\ Len(board'.hEdges) = Len(board.hEdges)
                  /\ Len(board'.vEdges) = Len(board.vEdges)
                  /\ \A k \in EdgeIndexes :
                        /\ At(board'.hEdges, k) = IF k = h THEN new ELSE At(board.hEdges, k)
                        /\ At(board'.vEdges, k) = IF k = v THEN new ELSE At(board.vEdges, k)]_vars

\* The wall brush was just applied to the horizontal edge (1, 4), which was
\* a door and is a wall now; the two other edges keep their door and wall.
C25_Witness ==
    /\ EdgeRun /\ hist.n = 1
    /\ hist.key.pick = EdgePick("h", 1, 4)
    /\ hist.key.brush = "wall" /\ hist.before.edge = "door"
    /\ At(board.hEdges, 17) = "wall"
    /\ At(board.hEdges, 0) = "door"
    /\ At(board.vEdges, 7) = "wall"

---------------------------------------------------------------------------
(* Terrain painting on a furnished board: a document with terrain, edges, *)
(* a lever, a bridge over a pit, a light over water and an asset is         *)
(* loaded; terrain is painted and bridges are placed on the bridge's cell   *)
(* and on the light's cell.                                                 *)

PaintDoc ==
    JObj([version |-> JNum(1),
          board |-> JObj([cells |-> JArr(SampleCells), hEdges |-> JArr(SampleHEdges),
                          vEdges |-> JArr(SampleVEdges), objects |-> JArr(SampleObjects)]),
          customObjects |->
              JArr(<<JObj([id |-> JNum(7), name |-> JStr("chest"), url |-> JStr("chest.glb"),
                           x |-> JNum(1), y |-> JNum(1), scale |-> JNum(150),
                           yOffset |-> JNum(50), rotation |-> JNum(90)])>>)])

PaintCells == {CellPick(2, 0), CellPick(1, 1)}

NextPaint ==
    \/ \E m \in {"cells", "objects"} : SetMode(m) /\ UNCHANGED hist
    \/ \E t \in CellTypes : SetCellBrush(t) /\ UNCHANGED hist
    \/ \E t \in {"bridge"} : SetObjectBrush(t) /\ UNCHANGED hist
    \/ \E pick \in PaintCells : applyPick(pick) /\ UNCHANGED hist
    \/ importJson(PaintDoc) /\ UNCHANGED hist
    \/ ClearStatus /\ UNCHANGED hist

SpecPaint == Init /\ [][NextPaint]_vars

\* C26: a cell pick in cells mode sets the cell to the brush and leaves
\* every other cell, every edge, the asset list and every object unchanged,
\* except that the cell's object becomes {none, 0} when the brush is floor
\* and the object was a bridge; painting water or pit changes no object.
C26_CellPaintFrame ==
    [][\A pick \in PaintCells :
          (mode = "cells" /\ applyPick(pick)) =>
              LET i == idxCell(pick.x, pick.y)
              IN  /\ Len(board'.cells) = Len(board.cells)
                  /\ Len(board'.objects) = Len(board.objects)
                  /\ \A j \in CellIndexes :
                        /\ At(board'.cells, j) = IF j = i THEN cellBrush ELSE CellAt(j)
                        /\ At(board'.objects, j) =
                              IF j = i /\ cellBrush = "floor" /\ ObjectAt(i).type = "bridge"
                              THEN NoObject ELSE ObjectAt(j)
                  /\ board'.hEdges = board.hEdges
                  /\ board'.vEdges = board.vEdges
                  /\ customObjects' = customObjects
                  /\ cellBrush \in {"water", "pit"} => board'.objects = board.objects]_vars

\* Floor was just painted on the cell of the loaded bridge: the bridge is
\* gone; the loaded lever, the light, the edges and the asset are in place.
C26_Witness ==
    /\ status = StatusCell(2, 0, "floor")
    /\ CellAt(2) = "floor" /\ ObjectAt(2) = NoObject
    /\ ObjectAt(0) = [type |-> "lever", rotation |-> 90, light |-> <<>>]
    /\ ObjectAt(5).type = "light" /\ ObjectAt(5).rotation = 270
    /\ board.hEdges = SampleHEdges /\ board.vEdges = SampleVEdges
    /\ Len(customObjects) = 1 /\ customObjects[1].x = 1 /\ customObjects[1].y = 1

---------------------------------------------------------------------------
(* Light selection: lights are placed, selected, edited, replaced and     *)
(* erased on one cell, the board is reset and documents are loaded.  The   *)
(* effect that drops a stale selection runs after a render, so it is       *)
(* never postponed forever (weak fairness).  The history records a Reset   *)
(* and the selection the effect dropped after it.                          *)

LightDocs == {PaintDoc, Serialize(makeEmptyState, <<>>), JNull}

ResetRecord == [n |-> 0, reset |-> selectedLightCell]
EffectRecord ==
    IF "reset" \in DOMAIN hist
    THEN [n |-> 0, reset |-> hist.reset, dropped |-> selectedLightCell]
    ELSE NoRun

NextLights ==
    \/ \E m \in {"objects"} : SetMode(m) /\ hist' = NoRun
    \/ \E t \in {"light", "none", "torch"} : SetObjectBrush(t) /\ hist' = NoRun
    \/ \E pick \in PickCells : applyPick(pick) /\ hist' = NoRun
    \/ \E idx \in CellIndexes : SelectLight(idx) /\ hist' = NoRun
    \/ \E partial \in {[intensity |-> 0]} : updateSelectedLight(partial) /\ UNCHANGED hist
    \/ LightSelectionEffect /\ hist' = EffectRecord
    \/ resetAll /\ hist' = ResetRecord
    \/ \E data \in LightDocs : importJson(data) /\ hist' = NoRun
    \/ ClearStatus /\ UNCHANGED hist

SpecLights ==
    Init /\ [][NextLights]_vars /\ WF_vars(LightSelectionEffect /\ hist' = EffectRecord)

\* The light selection is null or points at a light with payload.
SelectionOk ==
    selectedLightCell # <<>> => IsLight(ObjectAt(selectedLightCell[1]))

\* C27: a light selection points at a light with payload: every step but
\* Reset keeps it so (an edit that turns the selected cell into a non-light
\* clears the selection in the same step); an accepted load clears the
\* selection; a selection that points at a non-light is eventually cleared
\* or valid again; and a light-property update made while the selection
\* points at a non-light changes nothing on the board.
C27_LightSelection ==
    /\ [][SelectionOk => (SelectionOk' \/ resetAll)]_vars
    /\ [][\A data \in LightDocs :
             (~LoadFails(data) /\ importJson(data)) => selectedLightCell' = <<>>]_vars
    /\ [][\A partial \in {[intensity |-> 0]} :
             (~SelectionOk /\ updateSelectedLight(partial)) => board' = board]_vars
    /\ (~SelectionOk) ~> SelectionOk

\* The board was reset while the edited light of cell (1, 1) was selected,
\* and the effect has dropped the selection.
C27_Witness ==
    /\ "dropped" \in DOMAIN hist
    /\ hist.reset = <<5>> /\ hist.dropped = <<5>>
    /\ selectedLightCell = <<>> /\ editingLight = <<>>
    /\ board = makeEmptyState

---------------------------------------------------------------------------
(* The eraser and the selected template (SpecAssets) *)

\* C28: in every reachable state, a cell pick with mode objects and brush
\* none on a cell that holds a built-in object leaves {none, 0} there, also
\* after an asset template has been loaded or selected.
C28_EraserClears ==
    [][\A pick \in AssetCells :
          (/\ mode = "objects" /\ objectBrush = "none"
           /\ ObjectAt(idxCell(pick.x, pick.y)).type # "none"
           /\ applyPick(pick)) =>
              At(board'.objects, idxCell(pick.x, pick.y)) = NoObject]_vars

---------------------------------------------------------------------------
(* What an accepted load leaves (SpecLoad) *)

Accepted == AfterLoad /\ ~LoadFails(hist.doc)

\* The asset list a document stands for: its kept entries, none when it
\* has no customObjects array.
DocumentAssets ==
    IF Get(hist.doc, "customObjects").j = "array"
    THEN ImportEntries(Get(hist.doc, "customObjects").a, <<>>, hist.before.nextCustomId).list
    ELSE <<>>

\* C29: after an accepted load the board and the asset list are determined
\* by the document alone: a document with no customObjects array leaves an
\* empty asset list, no placement from before the load survives, and the
\* light selection and the asset selection are null.
C29_LoadReplacesContent ==
    Accepted =>
        /\ board = LoadBoard(hist.doc)
        /\ customObjects = DocumentAssets
        /\ selectedLightCell = <<>>
        /\ selectedCustomId = <<>>

\* C30: after any accepted load, the per-field fallback included, every
\* bridge of the board is on a water or pit cell and an object has a light
\* payload if and only if its type is light.
C30_LoadedBoardInvariants ==
    Accepted =>
        \A i \in CellIndexes :
            /\ ObjectAt(i).type = "bridge" => CellAt(i) \in {"water", "pit"}
            /\ (ObjectAt(i).light # <<>>) <=> (ObjectAt(i).type = "light")

====
